---- MODULE Spec2Model ----
(***************************************************************************)
(* Incremental reconciliation of the course snapshot, as done by           *)
(* update_courses.py (sync) and update_courses_filter.py (main).           *)
(*                                                                         *)
(* Encoding of Python values:                                              *)
(*   - a str is a sequence of one-character tokens; the Persian digits are *)
(*     the tokens "fa0" .. "fa9";                                          *)
(*   - None, NaN and the empty CSV cell are all Null (to_csv writes the    *)
(*     three as an empty cell and read_csv gives NaN back);                *)
(*   - an int price n is <<n>>, so that it never has to be compared with   *)
(*     Null or with a str;                                                 *)
(*   - bool is the int subtype it is in Python: True is 1, False is 0;     *)
(*   - a dict is the sequence of its values in insertion order; the CSV    *)
(*     file is the sequence of its rows;                                   *)
(*   - a timestamp string is the reading of the wall clock it formats      *)
(*     (a day for update_courses.py, a second for the filter script).      *)
(* Of the seventeen columns two fetched, non-state columns are kept:       *)
(* min_price, which update_courses.py normalises without ever raising, and *)
(* capacity, whose int() raises on a non-numeric string (duration_hours is *)
(* converted by the same expression); update_courses_filter.py passes both *)
(* through raw.                                                            *)
(*                                                                         *)
(* Two specifications share the definitions of the reconciler:             *)
(*   Spec     the reconciliation over many syncs and an advancing clock;   *)
(*            fetch_all and save_all are one step each, the API serves     *)
(*            well-formed records, only CSV_FILE is tracked;               *)
(*   SpecRun  one sync statement by statement: the page requests of        *)
(*            fetch_all, the normalisation that may raise, the three       *)
(*            writes of save_all and a process that may stop between them; *)
(*   FairFetch  fetch_all alone, with the progress an event loop gives a   *)
(*            running coroutine, for termination.                          *)
(***************************************************************************)
EXTENDS Integers, Sequences, FiniteSets, TLC

VARIABLES
    script,       \* which of the two scripts this behaviour runs
    clock,        \* the wall clock, datetime.now(TEHRAN_TZ)
    pc,           \* position of the running sync: "idle" | "fetching" | "saved", and in
                  \* SpecRun also "fetched" | "reconciled" | "csv_written" | "json_written"
    now,          \* sync's local `now`
    existing_map, \* sync's local existing_map, built from what load_existing returned
    csv,          \* CSV_FILE: the persisted snapshot, one row per element
    report,       \* sync's locals new, expired, revived, as handed to save_all
    last,         \* history: `raw` and `now` of the last sync that saved
    skip,         \* fetch_all's local skip
    empty,        \* fetch_all's local empty
    data_all,     \* fetch_all's local data_all (courses in the filter script)
    inflight,     \* the offsets of the page requests awaiting their response
    calls,        \* history: the page requests answered so far in this fetch
    df,           \* sync's local final, the rows handed to save_all
    json,         \* JSON_FILE
    log,          \* LOG_FILE
    steps,        \* history: the stages this sync has gone through
    syncs         \* history: how many syncs have been started

\* the variables only SpecRun moves
runOnly == <<skip, empty, data_all, inflight, calls, df, json, log, steps, syncs>>

vars == <<script, clock, pc, now, existing_map, csv, report, last, runOnly>>

\* ------------------------------------------------------------------ bounds

\* the last reading of the wall clock
MaxClock == 1

\* the most raw records one fetch returns
MaxFetch == 1

\* the ids ($oid) the remote API may serve
Ids == {"A", "B"}

\* the minCost strings the remote API may serve
RawCosts == { <<>>, <<"fa1", ",", "2">>, <<"n">> }

Scripts == {"update_courses", "update_courses_filter"}

Null == <<>>

\* ----------------------------------------------------------------- helpers

AsciiDigits == <<"0", "1", "2", "3", "4", "5", "6", "7", "8", "9">>

FaDigits == <<"fa0", "fa1", "fa2", "fa3", "fa4", "fa5", "fa6", "fa7", "fa8", "fa9">>

Range(s) == {s[i] : i \in DOMAIN s}

IndexOf(s, x) == CHOOSE i \in DOMAIN s : s[i] = x

\* FA_TO_EN: str.maketrans of the Persian digits to the ASCII digits
FA_TO_EN(ch) == IF ch \in Range(FaDigits) THEN AsciiDigits[IndexOf(FaDigits, ch)] ELSE ch

\* fa_to_en_func: str(val).translate(FA_TO_EN)
fa_to_en_func(val) == [i \in DOMAIN val |-> FA_TO_EN(val[i])]

\* str.replace(",", "")
RemoveCommas(val) == SelectSeq(val, LAMBDA ch : ch # ",")

\* str.isdigit(): non-empty and every character a digit
isdigit(val) == val # <<>> /\ \A i \in DOMAIN val : val[i] \in Range(AsciiDigits)

RECURSIVE int(_)
\* int(val) of a string of ASCII digits
int(val) ==
    IF val = <<>> THEN 0
    ELSE 10 * int(SubSeq(val, 1, Len(val) - 1)) + (IndexOf(AsciiDigits, val[Len(val)]) - 1)

\* normalize_price of update_courses.py
normalize_price(val) ==
    IF val = <<>> THEN Null
    ELSE LET v == RemoveCommas(fa_to_en_func(val))
         IN IF isdigit(v) THEN <<int(v)>> ELSE Null

\* normalize_bool: bool(int(val)), False when int() raises
normalize_bool(val) == val # 0

\* whether normalize_course raises on `course`: int() of a capacity that is not
\* a number (ValueError); nothing in normalize_course or sync catches it
normalize_course_raises(course) ==
    course.capacity # <<>> /\ ~isdigit(fa_to_en_func(course.capacity))

\* normalize_course of update_courses.py: updated_at is a fresh reading of the
\* clock, taken when the record is normalised
normalize_course(course, is_active, changed_at) ==
    [ id         |-> course.id,
      min_price  |-> normalize_price(course.minCost),
      capacity   |-> IF course.capacity = <<>> THEN Null
                     ELSE <<int(fa_to_en_func(course.capacity))>>,
      is_active  |-> IF normalize_bool(is_active) THEN 1 ELSE 0,
      changed_at |-> changed_at,
      updated_at |-> clock ]

\* normalize of update_courses_filter.py: the raw fields are passed through
normalize(course, is_active, changed_at) ==
    [ id         |-> course.id,
      min_price  |-> course.minCost,
      capacity   |-> course.capacity,
      is_active  |-> is_active,
      changed_at |-> changed_at,
      updated_at |-> clock ]

\* ------------------------------------------------------------------- dicts

\* mutant of DictSet: the row is appended, as a list of rows would be extended
DictSet_append(d, rec) == Append(d, rec)

\* d[rec["id"]] = rec on an insertion-ordered dict
DictSet(d, rec) ==
    IF \E i \in DOMAIN d : d[i].id = rec.id
    THEN [i \in DOMAIN d |-> IF d[i].id = rec.id THEN rec ELSE d[i]]
    ELSE Append(d, rec)

RECURSIVE DictUpdate(_, _)
\* for rec in items: d[rec["id"]] = rec
DictUpdate(d, items) ==
    IF items = <<>> THEN d
    ELSE DictUpdate(DictSet(d, Head(items)), Tail(items))

Keys(d) == {d[i].id : i \in DOMAIN d}

\* d[cid], for cid in d
DictGet(d, cid) == d[CHOOSE i \in DOMAIN d : d[i].id = cid]

\* the orders in which a Python set may be iterated
Orders(S) == {o \in [1..Cardinality(S) -> S] : \A i, j \in DOMAIN o : o[i] = o[j] => i = j}

\* ------------------------------------------------------------ the reconciler

\* load_existing: the rows of CSV_FILE, none when the file is missing or empty
load_existing == csv

\* {str(r["id"]): r.to_dict() for _, r in existing_df.iterrows()}
build_existing_map(existing_df) == DictUpdate(<<>>, existing_df)

\* old_active / old_active_ids
old_active ==
    IF script = "update_courses"
    THEN {r.id : r \in {x \in Range(existing_map) : normalize_bool(x.is_active)}}
    ELSE {r.id : r \in {x \in Range(existing_map) : x.is_active = 1}}

\* old_inactive / old_inactive_ids
old_inactive ==
    IF script = "update_courses"
    THEN {r.id : r \in {x \in Range(existing_map) : ~normalize_bool(x.is_active)}}
    ELSE {r.id : r \in {x \in Range(existing_map) : x.is_active = 0}}

\* api_ids
api_ids(raw) == {raw[i].id : i \in DOMAIN raw}

\* mutant of changed: every fetched record counts as a transition
changed_always(cid) == TRUE

\* mutant of changed: only a record absent from the snapshot counts as a transition
changed_only_when_absent(cid) == cid \notin Keys(existing_map)

\* changed = not prev or not normalize_bool(prev["is_active"])
changed(cid) ==
    \/ cid \notin Keys(existing_map)
    \/ IF script = "update_courses"
       THEN ~normalize_bool(DictGet(existing_map, cid).is_active)
       ELSE DictGet(existing_map, cid).is_active = 0

\* the loop over raw that fills api_courses
api_courses(raw) ==
    [i \in DOMAIN raw |->
        LET cid == raw[i].id
            changed_at == IF changed(cid) THEN now
                          ELSE DictGet(existing_map, cid).changed_at
        IN IF script = "update_courses"
           THEN normalize_course(raw[i], 1, changed_at)
           ELSE normalize(raw[i], 1, changed_at)]

\* mutant of new: every fetched record that was not active is new
new_not_active(api) == SelectSeq(api, LAMBDA c : c.id \notin old_active)

\* new = [c for c in api_courses if c["id"] not in existing_map]
new(api) == SelectSeq(api, LAMBDA c : c.id \notin Keys(existing_map))

\* mutant of revived: every fetched record that was not active is revived
revived_not_active(api) == SelectSeq(api, LAMBDA c : c.id \notin old_active)

\* revived = [c for c in api_courses if c["id"] in old_inactive]
revived(api) == SelectSeq(api, LAMBDA c : c.id \in old_inactive)

\* mutant of expired_ids: every record that was not fetched is expired again
expired_ids_all(raw) == Keys(existing_map) \ api_ids(raw)

\* the ids the expiry loop visits: old_active - api_ids
expired_ids(raw) == old_active \ api_ids(raw)

\* mutant of expired: the expiry loop leaves changed_at as it was
expired_keep_changed_at(order) ==
    [i \in DOMAIN order |->
        [DictGet(existing_map, order[i]) EXCEPT !.is_active = 0, !.updated_at = now]]

\* the expiry loop, visiting old_active - api_ids in the order `order`; it changes
\* the rows of existing_map in place, after new and revived have been computed
expired(order) ==
    [i \in DOMAIN order |->
        [DictGet(existing_map, order[i]) EXCEPT
            !.is_active = 0, !.changed_at = now, !.updated_at = now]]

\* mutant of final: the prior rows overwrite the fetched and expired ones
final_prior_wins(api, exp) ==
    DictUpdate(DictUpdate(<<>>, api \o exp), existing_map)

\* final: the prior rows (those of the expired ids as the loop left them),
\* overwritten by api_courses, then by expired
final(api, exp) ==
    DictUpdate(DictUpdate(<<>>, DictUpdate(existing_map, exp)), api \o exp)

\* ------------------------------------------------------------------ actions

\* a capacity the remote API serves that int() accepts, and one it does not
GoodCapacity == <<"fa2", "0">>

BadCapacity == <<"n">>

\* the raw records of Spec: every capacity is well formed
RawCourses == [id : Ids, minCost : RawCosts, capacity : {GoodCapacity}]

SeqsUpTo(S, n) == UNION {[1..k -> S] : k \in 0..n}

NoReport == [new |-> <<>>, expired |-> <<>>, revived |-> <<>>]

Init ==
    /\ script \in Scripts
    /\ clock = 0
    /\ pc = "idle"
    /\ now = 0
    /\ existing_map = <<>>
    /\ csv = <<>>
    /\ report = NoReport
    /\ last = [valid |-> FALSE, raw |-> <<>>, now |-> 0]
    /\ skip = 0
    /\ empty = 0
    /\ data_all = <<>>
    /\ inflight = {}
    /\ calls = <<>>
    /\ df = <<>>
    /\ json = [ok |-> TRUE, rows |-> <<>>]
    /\ log = <<>>
    /\ steps = <<>>
    /\ syncs = 0

\* the wall clock advances
Tick ==
    /\ clock < MaxClock
    /\ clock' = clock + 1
    /\ UNCHANGED <<script, pc, now, existing_map, csv, report, last, runOnly>>

\* sync up to `raw = await fetch_all(payload)`: the snapshot is loaded and `now` read
SyncBegin ==
    /\ pc = "idle"
    /\ existing_map' = build_existing_map(load_existing)
    /\ now' = clock
    /\ pc' = "fetching"
    /\ UNCHANGED <<script, clock, csv, report, last, runOnly>>

\* sync from the return of fetch_all to the end of save_all
SyncFinish ==
    /\ pc = "fetching"
    /\ \E raw \in SeqsUpTo(RawCourses, MaxFetch) :
       \E order \in Orders(expired_ids(raw)) :
          LET api == api_courses(raw)
              exp == expired(order)
          IN /\ csv' = final(api, exp)
             /\ report' = [new |-> new(api), expired |-> exp, revived |-> revived(api)]
             /\ last' = [valid |-> TRUE, raw |-> raw, now |-> now]
    /\ pc' = "saved"
    /\ UNCHANGED <<script, clock, now, existing_map, runOnly>>

\* sync returns and the process ends: its locals are gone
SyncExit ==
    /\ pc = "saved"
    /\ pc' = "idle"
    /\ existing_map' = <<>>
    /\ report' = NoReport
    /\ UNCHANGED <<script, clock, now, csv, last, runOnly>>

Next == Tick \/ SyncBegin \/ SyncFinish \/ SyncExit

Spec == Init /\ [][Next]_vars

\* ------------------------------------------- the sync, statement by statement

PAGE_SIZE == 9

MAX_CONCURRENCY == 5

MAX_EMPTY_PAGES == 2

\* the pages of the remote API that may hold records; a request at an offset
\* beyond them is answered by an empty page
MaxPages == 2

\* the syncs one behaviour of SpecRun starts
MaxSyncs == 2

\* the raw records the remote API serves in SpecRun: one of them malformed
RunCourses ==
    { [id |-> "A", minCost |-> <<"fa1", ",", "2">>, capacity |-> GoodCapacity],
      [id |-> "B", minCost |-> <<"fa1", ",", "2">>, capacity |-> GoodCapacity],
      [id |-> "B", minCost |-> <<"n">>, capacity |-> BadCapacity] }

\* the answers to the page request at offset `sk`: a page of records (one record
\* stands for the up to PAGE_SIZE of a page), an empty page, or a transport failure
Responses(sk) ==
    {[kind |-> "empty", data |-> <<>>], [kind |-> "fail", data |-> <<>>]}
        \cup IF sk < MaxPages * PAGE_SIZE
             THEN {[kind |-> "page", data |-> <<c>>] : c \in RunCourses}
             ELSE {}

\* the last offset a fetch can reach: past the data, MAX_EMPTY_PAGES empty pages end it
MaxSkip == (MaxPages + MAX_EMPTY_PAGES - 1) * PAGE_SIZE

\* mutant of fetch_page_raises: fetch_page catches the exception in both scripts
fetch_page_swallows(resp) == FALSE

\* fetch_page: what `data` is after `await fetch_page(...)`; the filter script
\* turns a failure into [], update_courses.py lets it propagate
fetch_page_raises(resp) == resp.kind = "fail" /\ script = "update_courses"

\* mutant of next_empty: a non-empty page does not reset the counter
next_empty_no_reset(e, data) == IF data = <<>> THEN e + 1 ELSE e

\* mutant of next_empty: every page resets the counter
next_empty_always_reset(e, data) == 0

\* `empty += 1` on an empty page, `empty = 0` on any other
next_empty(e, data) == IF data = <<>> THEN e + 1 ELSE 0

\* mutant of next_skip: the offset advances after a non-empty page only
next_skip_nonempty(sk, data) == IF data = <<>> THEN sk ELSE sk + PAGE_SIZE

\* `skip += PAGE_SIZE`, after an empty page as after any other
next_skip(sk, data) == sk + PAGE_SIZE

\* `if empty >= MAX_EMPTY_PAGES: break`
loop_breaks(e) == e >= MAX_EMPTY_PAGES

\* the stage `ev` recorded in the history; repeated page requests count once
AddStep(st, ev) == IF st # <<>> /\ st[Len(st)] = ev THEN st ELSE Append(st, ev)

\* the frames of sync and fetch_all are gone
FramesGone ==
    /\ existing_map' = <<>>
    /\ report' = NoReport
    /\ skip' = 0
    /\ empty' = 0
    /\ data_all' = <<>>
    /\ inflight' = {}
    /\ calls' = <<>>
    /\ df' = <<>>

\* the locals of a process that has ended
LocalsGone ==
    /\ FramesGone
    /\ steps' = <<>>

\* an exception nothing catches ends the process; the traceback it prints
\* shows how far the sync had come
Raised ==
    /\ FramesGone
    /\ steps' = Append(steps, "raised")

\* sync up to the first iteration of fetch_all: load_existing, now, existing_map,
\* and fetch_all's `skip, empty, data_all = 0, 0, []`
RunBegin ==
    /\ pc = "idle"
    /\ syncs < MaxSyncs
    /\ syncs' = syncs + 1
    /\ existing_map' = build_existing_map(load_existing)
    /\ now' = clock
    /\ pc' = "fetching"
    /\ skip' = 0
    /\ empty' = 0
    /\ data_all' = <<>>
    /\ inflight' = {}
    /\ calls' = <<>>
    /\ steps' = <<"read">>
    /\ UNCHANGED <<script, clock, csv, report, last, df, json, log>>

\* fetch_all: `payload["skip"] = skip` and the request of fetch_page is sent; the
\* loop sends the next one only after `await` has given it the answer to this one
FetchIssue ==
    /\ pc = "fetching"
    /\ inflight = {}
    /\ skip <= MaxSkip
    /\ inflight' = {skip}
    /\ steps' = AddStep(steps, "request")
    /\ UNCHANGED <<script, clock, pc, now, existing_map, csv, report, last,
                   skip, empty, data_all, calls, df, json, log, syncs>>

\* fetch_all: the answer arrives and the rest of the loop body runs
FetchReceive ==
    /\ pc = "fetching"
    /\ inflight # {}
    /\ \E resp \in Responses(skip) :
        IF fetch_page_raises(resp)
        THEN \* the exception leaves fetch_all and sync: the process ends
             /\ pc' = "idle"
             /\ Raised
             /\ UNCHANGED <<script, clock, now, csv, last, json, log, syncs>>
        ELSE /\ calls' = Append(calls, [skip |-> skip, kind |-> resp.kind, data |-> resp.data])
             /\ inflight' = {}
             /\ empty' = next_empty(empty, resp.data)
             /\ data_all' = data_all \o resp.data
             /\ IF resp.data = <<>> /\ loop_breaks(empty')
                THEN /\ pc' = "fetched"
                     /\ skip' = skip
                     /\ steps' = Append(steps, "returned")
                ELSE /\ pc' = "fetching"
                     /\ skip' = next_skip(skip, resp.data)
                     /\ steps' = steps
             /\ UNCHANGED <<script, clock, now, existing_map, csv, report, last,
                            df, json, log, syncs>>

\* sync from the return of fetch_all to the call of save_all: the loop that
\* normalises, new, revived, the expiry loop and final
Reconcile ==
    /\ pc = "fetched"
    /\ IF script = "update_courses"
          /\ \E i \in DOMAIN data_all : normalize_course_raises(data_all[i])
       THEN \* the exception leaves sync: the process ends, nothing is saved
            /\ pc' = "idle"
            /\ Raised
            /\ UNCHANGED <<script, clock, now, csv, last, json, log, syncs>>
       ELSE /\ \E order \in Orders(expired_ids(data_all)) :
                LET api == api_courses(data_all)
                    exp == expired(order)
                IN /\ df' = final(api, exp)
                   /\ report' = [new |-> new(api), expired |-> exp, revived |-> revived(api)]
            /\ pc' = "reconciled"
            /\ steps' = Append(steps, "reconcile")
            /\ UNCHANGED <<script, clock, now, existing_map, csv, last,
                           skip, empty, data_all, inflight, calls, json, log, syncs>>

\* save_all: df.to_csv(CSV_FILE, ...)
SaveCsv ==
    /\ pc = "reconciled"
    /\ csv' = df
    /\ pc' = "csv_written"
    /\ steps' = Append(steps, "csv")
    /\ UNCHANGED <<script, clock, now, existing_map, report, last,
                   skip, empty, data_all, inflight, calls, df, json, log, syncs>>

\* save_all: df.to_json(JSON_FILE, ...)
SaveJson ==
    /\ pc = "csv_written"
    /\ json' = [ok |-> TRUE, rows |-> df]
    /\ pc' = "json_written"
    /\ steps' = Append(steps, "json")
    /\ UNCHANGED <<script, clock, now, existing_map, csv, report, last,
                   skip, empty, data_all, inflight, calls, df, log, syncs>>

\* the titles of the sections save_all writes: one for each list that is not empty
log_sections(rep) ==
    SelectSeq(<<"New", "Expired", "Revived">>,
              LAMBDA t : CASE t = "New" -> rep.new # <<>>
                           [] t = "Expired" -> rep.expired # <<>>
                           [] t = "Revived" -> rep.revived # <<>>)

\* the entry save_all writes: the summary line with the three counts, the sections
log_entry(rep) ==
    [complete |-> TRUE,
     new |-> Len(rep.new), expired |-> Len(rep.expired), revived |-> Len(rep.revived),
     sections |-> log_sections(rep)]

\* mutant of write_log: the file is opened with "w"
write_log_truncate(l, entry) == <<entry>>

\* open(LOG_FILE, "a") and the writes of one entry
write_log(l, entry) == Append(l, entry)

\* mutant of AppendLog: the entry is written before the snapshot files
AppendLog_before_snapshot ==
    /\ pc = "reconciled"
    /\ log' = write_log(log, log_entry(report))
    /\ pc' = "saved"
    /\ steps' = Append(steps, "log")
    /\ UNCHANGED <<script, clock, now, existing_map, csv, report, last,
                   skip, empty, data_all, inflight, calls, df, json, syncs>>

\* save_all: the entry is appended to LOG_FILE
AppendLog ==
    /\ pc = "json_written"
    /\ log' = write_log(log, log_entry(report))
    /\ pc' = "saved"
    /\ steps' = Append(steps, "log")
    /\ UNCHANGED <<script, clock, now, existing_map, csv, report, last,
                   skip, empty, data_all, inflight, calls, df, json, syncs>>

\* sync returns and the process ends
RunExit ==
    /\ pc = "saved"
    /\ pc' = "idle"
    /\ LocalsGone
    /\ UNCHANGED <<script, clock, now, csv, last, json, log, syncs>>

\* the proper prefixes of `rows`
ProperPrefixes(rows) == {SubSeq(rows, 1, k) : k \in 0..(Len(rows) - 1)}

\* the process ends at `stage` of save_all
CrashIn(stage) == pc = stage /\ pc' = "idle" /\ LocalsGone

\* the process stops, or a write raises (disk full, permission), inside save_all:
\* to_csv truncates CSV_FILE and writes it row by row, to_json rewrites JSON_FILE
\* in place, the log entry is written in several writes
Crash ==
    \/ /\ CrashIn("reconciled")
       /\ csv' \in {csv} \cup ProperPrefixes(df)
       /\ UNCHANGED <<script, clock, now, last, json, log, syncs>>
    \/ /\ CrashIn("csv_written")
       /\ json' \in {json, [ok |-> FALSE, rows |-> <<>>]}
       /\ UNCHANGED <<script, clock, now, csv, last, log, syncs>>
    \/ /\ CrashIn("json_written")
       /\ log' \in {log, Append(log, [log_entry(report) EXCEPT !.complete = FALSE])}
       /\ UNCHANGED <<script, clock, now, csv, last, json, syncs>>

RunNext ==
    \/ RunBegin
    \/ FetchIssue
    \/ FetchReceive
    \/ Reconcile
    \/ SaveCsv
    \/ SaveJson
    \/ AppendLog
    \/ RunExit
    \/ Crash

SpecRun == Init /\ [][RunNext]_vars

\* fetch_all alone: syncs that load and fetch; a sync whose fetch has returned
\* goes no further
FetchNext == RunBegin \/ FetchIssue \/ FetchReceive

\* the event loop runs a coroutine that can run, and every request is answered
\* or fails: a started fetch_all keeps executing its statements
FairFetch ==
    /\ Init
    /\ [][FetchNext]_vars
    /\ WF_vars(FetchIssue)
    /\ WF_vars(FetchReceive)

\* ------------------------------------------------------------------ claims

\* the step in which a sync reconciles and saves
SyncDone == pc = "fetching" /\ pc' = "saved"

\* how many records of `rows` carry `id`
Count(rows, id) == Cardinality({i \in DOMAIN rows : rows[i].id = id})

ActiveIds(rows) == {r.id : r \in {x \in Range(rows) : x.is_active = 1}}

InactiveIds(rows) == {r.id : r \in {x \in Range(rows) : x.is_active = 0}}

\* C1: in every sync, a record whose is_active differs from the prior snapshot
\* (a first appearance is a transition into active) gets changed_at = the
\* sync's now, and every other record keeps the changed_at it had.
C1_ChangedAtOnTransition ==
    [][SyncDone =>
        \A id \in Keys(csv') :
            LET post == DictGet(csv', id)
            IN IF id \notin Keys(csv)
               THEN post.is_active = 1 /\ post.changed_at = now
               ELSE IF DictGet(csv, id).is_active # post.is_active
                    THEN post.changed_at = now
                    ELSE post.changed_at = DictGet(csv, id).changed_at]_vars

\* C1 witness: a sync has refreshed a record that stayed active, and its
\* changed_at is older than the sync's now
C1_Witness ==
    /\ pc = "saved"
    /\ \E r \in Range(csv) :
        /\ r.id \in api_ids(last.raw)
        /\ r.is_active = 1
        /\ r.changed_at < now
        /\ r.updated_at = now

\* C2: a sync leaves exactly one row for every id of the prior snapshot and of
\* the fetched set: no id twice, none removed, the size never decreases; and
\* nothing but a sync's save changes the snapshot.
C2_OneRowPerIdEverSeen ==
    [][IF SyncDone
       THEN /\ Keys(csv') = Keys(csv) \cup api_ids(last'.raw)
            /\ \A id \in Keys(csv') : Count(csv', id) = 1
            /\ Len(csv') >= Len(csv)
       ELSE csv' = csv]_vars

\* C2 witness: a snapshot of two ids, one of them absent from the last fetch
C2_Witness ==
    /\ pc = "saved"
    /\ Len(csv) = 2
    /\ Keys(csv) = Ids
    /\ \E id \in Ids : id \notin api_ids(last.raw)

\* C3: a sync that follows a sync with the same fetched records and the same
\* now leaves the snapshot as it was and reports nothing new, expired or revived.
C3_Idempotent ==
    [][(SyncDone /\ last.valid /\ last'.raw = last.raw /\ last'.now = last.now) =>
        /\ csv' = csv
        /\ report'.new = <<>>
        /\ report'.expired = <<>>
        /\ report'.revived = <<>>]_vars

\* C4: the expired list holds exactly the ids active in the prior snapshot and
\* not fetched, each once; each is in the new snapshot inactive with
\* changed_at = updated_at = now.
C4_ExpiredExactly ==
    [][SyncDone =>
        LET ids == {report'.expired[i].id : i \in DOMAIN report'.expired}
        IN /\ ids = ActiveIds(csv) \ api_ids(last'.raw)
           /\ Len(report'.expired) = Cardinality(ids)
           /\ \A id \in ids :
                LET r == DictGet(csv', id)
                IN r.is_active = 0 /\ r.changed_at = now /\ r.updated_at = now]_vars

\* C4 witness: a sync after the clock advanced has expired a record while
\* another record of the snapshot was not reported
C4_Witness ==
    /\ pc = "saved"
    /\ now > 0
    /\ Len(report.expired) = 1
    /\ Len(csv) = 2

\* C5: the revived list holds exactly the fetched records whose id was inactive
\* in the prior snapshot; each is active in the new snapshot with changed_at =
\* now.
C5_RevivedExactly ==
    [][SyncDone =>
        /\ \A id \in Ids :
            Count(report'.revived, id) =
                IF id \in InactiveIds(csv) THEN Count(last'.raw, id) ELSE 0
        /\ \A i \in DOMAIN report'.revived :
            LET r == DictGet(csv', report'.revived[i].id)
            IN /\ report'.revived[i].is_active = 1
               /\ report'.revived[i].changed_at = now
               /\ r.is_active = 1
               /\ r.changed_at = now]_vars

\* C5 witness: a record has been revived by a sync later than its creation
C5_Witness ==
    /\ pc = "saved"
    /\ now > 0
    /\ report.revived # <<>>
    /\ DictGet(csv, report.revived[1].id).changed_at = now

\* C6: the new list holds exactly the fetched records whose id is absent from
\* the prior snapshot; with an empty prior snapshot every fetched record is
\* new and nothing is revived or expired.
C6_NewExactly ==
    [][SyncDone =>
        /\ \A id \in Ids :
            Count(report'.new, id) =
                IF id \notin Keys(csv) THEN Count(last'.raw, id) ELSE 0
        /\ csv = <<>> =>
            /\ Len(report'.new) = Len(last'.raw)
            /\ report'.revived = <<>>
            /\ report'.expired = <<>>]_vars

\* C6 witness: a record is new to a snapshot that already held another one
C6_Witness ==
    /\ pc = "saved"
    /\ report.new # <<>>
    /\ Len(csv) = 2

\* C7: no id is both in the new list and in the revived list of a sync.
C7_NewRevivedDisjoint ==
    {report.new[i].id : i \in DOMAIN report.new}
        \cap {report.revived[i].id : i \in DOMAIN report.revived} = {}

\* C7 witness: a sync has revived a record of a snapshot that holds two
C7_Witness ==
    /\ pc = "saved"
    /\ report.revived # <<>>
    /\ report.new = <<>>
    /\ Len(csv) = 2

\* C8 as stated: every record of the prior snapshot that was not fetched,
\* active or already inactive before, is in the new snapshot inactive with
\* changed_at = updated_at = now and its other fields as they were.
C8_AbsentStampedNow ==
    [][SyncDone =>
        \A id \in Keys(csv) \ api_ids(last'.raw) :
            /\ id \in Keys(csv')
            /\ DictGet(csv', id) =
                [DictGet(csv, id) EXCEPT
                    !.is_active = 0, !.changed_at = now, !.updated_at = now]]_vars

\* C8 amended: every record of the prior snapshot that was not fetched is in
\* the new snapshot inactive with its other fields as they were; changed_at and
\* updated_at are set to now only if it was active before, and a record that
\* was already inactive is kept exactly as it was.
C8_AbsentKeptInactive ==
    [][SyncDone =>
        \A id \in Keys(csv) \ api_ids(last'.raw) :
            /\ id \in Keys(csv')
            /\ DictGet(csv', id) =
                IF DictGet(csv, id).is_active = 1
                THEN [DictGet(csv, id) EXCEPT
                        !.is_active = 0, !.changed_at = now, !.updated_at = now]
                ELSE DictGet(csv, id)]_vars

\* C8 witness: a sync has expired one record while another, already inactive
\* and not fetched, still carries timestamps older than the sync's now
C8_Witness ==
    /\ pc = "saved"
    /\ report.expired # <<>>
    /\ \E r \in Range(csv) :
        /\ r.id \notin api_ids(last.raw)
        /\ r.is_active = 0
        /\ r.changed_at < now
        /\ r.updated_at < now

\* the last record of `raw` that carries `id`
LastFetched(raw, id) ==
    raw[CHOOSE i \in DOMAIN raw :
            raw[i].id = id /\ \A j \in DOMAIN raw : raw[j].id = id => j <= i]

\* the min_price column of a fetched record: an integer or null in
\* update_courses.py, the raw string in update_courses_filter.py
FetchedPrice(course) ==
    IF script = "update_courses" THEN normalize_price(course.minCost) ELSE course.minCost

\* C9: a record active in the prior snapshot and fetched again is active in the
\* new snapshot with its prior changed_at, updated_at = the sync's now, and the
\* fetched value of its other fields.
C9_RefreshedActive ==
    [][SyncDone =>
        \A id \in ActiveIds(csv) \cap api_ids(last'.raw) :
            LET post == DictGet(csv', id)
            IN /\ post.is_active = 1
               /\ post.changed_at = DictGet(csv, id).changed_at
               /\ post.updated_at = now
               /\ post.min_price = FetchedPrice(LastFetched(last'.raw, id))]_vars

\* C10: a record created by a sync has changed_at = updated_at = the sync's
\* now, however the wall clock advances while the sync fetches.
C10_CreatedAtNow ==
    [][SyncDone =>
        \A id \in Keys(csv') \ Keys(csv) :
            LET post == DictGet(csv', id)
            IN /\ post.changed_at = now
               /\ post.updated_at = now
               /\ post.changed_at = post.updated_at]_vars

\* ------------------------------------------------- claims about one sync

\* fetch_all has returned to sync
FetchReturned == pc \in {"fetched", "reconciled", "csv_written", "json_written", "saved"}

\* the answers i .. i + MAX_EMPTY_PAGES - 1 of this fetch were all empty pages
EmptyRun(i) == \A j \in i..(i + MAX_EMPTY_PAGES - 1) : calls[j].data = <<>>

RECURSIVE Concat(_)
\* the records of the pages of `cs`, in the order of `cs`
Concat(cs) == IF cs = <<>> THEN <<>> ELSE cs[1].data \o Concat(Tail(cs))

\* C11: the fetch loop goes on as long as no MAX_EMPTY_PAGES consecutive answers
\* were empty and returns as soon as they were (an empty page followed by a
\* non-empty one does not end it), and the records of every non-empty page
\* received are in the returned sequence, in the order received.
C11_StopsAtConsecutiveEmpties ==
    /\ pc = "fetching" =>
        \A i \in 1..(Len(calls) - MAX_EMPTY_PAGES + 1) : ~EmptyRun(i)
    /\ FetchReturned =>
        /\ Len(calls) >= MAX_EMPTY_PAGES
        /\ EmptyRun(Len(calls) - MAX_EMPTY_PAGES + 1)
        /\ \A i \in 1..(Len(calls) - MAX_EMPTY_PAGES) : ~EmptyRun(i)
    /\ pc # "idle" => data_all = Concat(calls)

\* C11 witness: a fetch has returned after an empty page that was followed by
\* a non-empty one, whose record it returns
C11_Witness ==
    /\ pc = "fetched"
    /\ \E i \in 1..(Len(calls) - 1) : calls[i].kind = "empty" /\ calls[i + 1].kind = "page"
    /\ data_all # <<>>

\* C12: a transport failure on one page request never leaves the fetch: a fetch
\* that is running either goes on or returns to sync, and an answer that was a
\* failure counts as an empty page.
C12_FailureNotPropagated ==
    [][pc = "fetching" =>
        /\ pc' \in {"fetching", "fetched"}
        /\ \A i \in DOMAIN calls' : calls'[i].kind = "fail" => calls'[i].data = <<>>
        /\ (Len(calls') > Len(calls) /\ calls'[Len(calls')].kind = "fail")
              => empty' = empty + 1]_vars

\* C13: normalising the fetched records never raises: reconciliation of a
\* fetched set always completes, and every fetched id is in the frame that is
\* then persisted.
C13_NormaliseNeverRaises ==
    [][pc = "fetched" =>
        /\ pc' = "reconciled"
        /\ api_ids(data_all) \subseteq Keys(df')]_vars

\* C14: whenever no sync is running, also after one stopped while saving, the
\* CSV file holds a complete snapshot and the JSON file is well formed and
\* holds the same snapshot.
C14_SnapshotAtomic == pc = "idle" => (json.ok /\ json.rows = csv)

\* C15: the log before a step is always a prefix of the log after it; the log
\* changes only in save_all after both snapshot files are written; and a sync
\* that completes has appended exactly one entry with the counts of its three
\* lists, naming only the non-empty ones.
C15_OneEntryPerSync ==
    [][/\ Len(log') >= Len(log)
       /\ SubSeq(log', 1, Len(log)) = log
       /\ log' # log => pc = "json_written"
       /\ (pc # "saved" /\ pc' = "saved") =>
            /\ Len(log') = Len(log) + 1
            /\ log'[Len(log')] = [complete |-> TRUE,
                                  new |-> Len(report.new),
                                  expired |-> Len(report.expired),
                                  revived |-> Len(report.revived),
                                  sections |-> log_sections(report)]
       /\ pc = "saved" => log' = log]_vars

\* C15 witness: a sync whose three lists are empty has appended its entry,
\* without sections, after the entry of an earlier sync that had a new record
C15_Witness ==
    /\ pc = "saved"
    /\ Len(log) = 2
    /\ log[1].complete /\ log[1].new > 0
    /\ log[2] = [complete |-> TRUE, new |-> 0, expired |-> 0, revived |-> 0, sections |-> <<>>]

\* the statements of one sync, in the order of the claim
SyncSteps == <<"read", "request", "returned", "reconcile", "csv", "json", "log">>

\* the statements the running or the last sync has executed
StepsTaken ==
    IF steps # <<>> /\ steps[Len(steps)] = "raised"
    THEN SubSeq(steps, 1, Len(steps) - 1)
    ELSE steps

\* C16: the steps a sync has taken are always an initial part of: read the
\* prior snapshot, request pages, fetch loop returned, reconcile, write CSV,
\* write JSON, append the log entry (so each happens once and in this order);
\* a sync that has completed took all of them; the reconciled frame exists
\* only when the fetch has returned, and the snapshot file differs from what
\* was read only after reconciliation.
C16_StepsInOrder ==
    /\ Len(StepsTaken) <= Len(SyncSteps)
    /\ StepsTaken = SubSeq(SyncSteps, 1, Len(StepsTaken))
    /\ pc = "saved" => steps = SyncSteps
    /\ (calls # <<>> \/ inflight # {}) => steps[1] = "read"
    /\ pc \in {"reconciled", "csv_written", "json_written", "saved"} =>
          /\ EmptyRun(Len(calls) - MAX_EMPTY_PAGES + 1)
          /\ Keys(df) = Keys(existing_map) \cup api_ids(Concat(calls))
    /\ pc \in {"fetching", "fetched", "reconciled"} => Keys(csv) = Keys(existing_map)
    /\ pc \in {"csv_written", "json_written", "saved"} => csv = df

\* C16 witness: a sync that made four page requests, two of them answered
\* with a record, has completed
C16_Witness ==
    /\ pc = "saved"
    /\ steps = SyncSteps
    /\ Len(calls) = MaxPages + MAX_EMPTY_PAGES
    /\ Len(data_all) = MaxPages

\* C17: with finitely many records behind the API, a fetch loop that is
\* running eventually stops running: it returns its sequence to sync (or, C12,
\* a failed request ends it); it does not request pages forever.
C17_FetchTerminates == (pc = "fetching") ~> (pc \in {"fetched", "idle"})

\* C17 witness: the longest fetch, every offset that holds a record answered
\* with it, has returned
C17_Witness ==
    /\ pc = "fetched"
    /\ Len(data_all) = MaxPages
    /\ calls[Len(calls)].skip = (MaxPages + MAX_EMPTY_PAGES - 1) * PAGE_SIZE

\* C18: the i-th page request of a fetch is at offset (i - 1) * PAGE_SIZE,
\* whether the pages before it were empty or not; the request in flight is
\* the one after those answered; the records are accumulated in the order of
\* the offsets; and at most MAX_CONCURRENCY requests are in flight.
C18_OffsetsInOrder ==
    /\ \A i \in DOMAIN calls : calls[i].skip = (i - 1) * PAGE_SIZE
    /\ inflight \subseteq {Len(calls) * PAGE_SIZE}
    /\ Cardinality(inflight) <= MAX_CONCURRENCY
    /\ pc = "fetching" => skip = Len(calls) * PAGE_SIZE
    /\ pc # "idle" => data_all = Concat(SelectSeq(calls, LAMBDA c : c.kind = "page"))

\* C18 witness: the third request is in flight, after an empty page at offset
\* 0 and a page with a record at offset PAGE_SIZE
C18_Witness ==
    /\ pc = "fetching"
    /\ inflight = {2 * PAGE_SIZE}
    /\ Len(calls) = 2
    /\ calls[1].data = <<>>
    /\ calls[2].data # <<>>

\* C19: after every completed sync, the active rows of the snapshot are
\* exactly the rows of the ids that sync fetched, and every other row is
\* inactive, whatever the prior snapshot held.
C19_ActiveIffFetched ==
    last.valid =>
        /\ ActiveIds(csv) = api_ids(last.raw)
        /\ InactiveIds(csv) = Keys(csv) \ api_ids(last.raw)

\* C19 witness: a sync has completed that fetched an id for the first time
\* while the snapshot held an id that was already inactive
C19_Witness ==
    /\ pc = "saved"
    /\ report.new # <<>>
    /\ report.expired = <<>>
    /\ InactiveIds(csv) # {}
    /\ InactiveIds(csv) = {existing_map[i].id : i \in {j \in DOMAIN existing_map : existing_map[j].is_active = 0}}

\* C20: in every sync the number of entries of the new list, which is the
\* count the log entry shows, is the number of rows by which the new snapshot
\* is larger than the prior one.
C20_NewCountIsGrowth ==
    /\ pc \in {"reconciled", "csv_written", "json_written", "saved"} =>
          Len(report.new) = Len(df) - Len(existing_map)
    /\ pc = "saved" => log[Len(log)].new = Len(csv) - Len(existing_map)

\* C21: in update_courses.py no file changes while the fetch runs; a page
\* request that raises ends the sync there, with the CSV, the JSON and the log
\* as they were (so no row became inactive and no entry was added); and a
\* sync of update_courses.py that does write a file had no failed request.
C21_FetchAbortWritesNothing ==
    [][script = "update_courses" =>
        /\ pc = "fetching" => (csv' = csv /\ json' = json /\ log' = log)
        /\ (pc = "fetching" /\ steps' = <<"read", "request", "raised">>) =>
              /\ pc' = "idle"
              /\ InactiveIds(csv') = InactiveIds(csv)
              /\ Len(log') = Len(log)
        /\ (csv' # csv \/ json' # json \/ log' # log) =>
              \A i \in DOMAIN calls : calls[i].kind # "fail"]_vars

\* C21 witness: a sync of update_courses.py has ended in a raised page
\* request; the snapshot of the sync before it, with its active record, and
\* that sync's log entry are what the files hold
C21_Witness ==
    /\ script = "update_courses"
    /\ pc = "idle"
    /\ steps = <<"read", "request", "raised">>
    /\ ActiveIds(csv) # {}
    /\ json = [ok |-> TRUE, rows |-> csv]
    /\ Len(log) = 1 /\ log[1].complete

====
